---- MODULE Spec2Model ----
(***************************************************************************)
(* Face-blur application: the geometry of detect_and_blur_faces and        *)
(* blur_face_region, the image and video pipelines (blur_faces_in_image,   *)
(* blur_faces_in_video) of src/utils/face_blur.py, and the upload handler  *)
(* (upload_file) of src/app.py.                                            *)
(*                                                                         *)
(* One behaviour is one invocation of one entry point: `entry` says which  *)
(* (a direct call of detect_and_blur_faces on one frame, a direct call of  *)
(* one of the two pipelines, or an HTTP upload that calls a pipeline).     *)
(* `pc` is the position in the code; the external collaborators (OpenCV,   *)
(* MediaPipe, the file system) are inputs: what the input file holds is    *)
(* fixed in `env`, and every call that can raise does so or not by a       *)
(* nondeterministic choice.                                                *)
(***************************************************************************)
EXTENDS Integers, Sequences, FiniteSets, TLC

\* ---------------------------------------------------------------- bounds
\* Longest video modelled (frames that decode); above PROGRESS_EVERY so that
\* a progress report happens and the loop goes on after it.
MaxFrames == 31
\* Most faces the detector reports in one frame of a video.
MaxFaces == 1
\* Relative bounding boxes are the fractions k/Denom.
Denom == 4
\* Most detections in the frame given to a direct detect_and_blur_faces call.
MaxDetections == 2
\* Frame widths and heights: narrower than the padding, between one and two
\* paddings, wide enough for a padded box to start inside and end outside,
\* and wider than any padded box.
FrameDims == {1, 30, 60, 100}

\* ------------------------------------------------------ program constants
\* face_blur.py:88  padding = 20
padding == 20
\* face_blur.py:195  if frame_count % 30 == 0
PROGRESS_EVERY == 30

ALLOWED_IMAGE_EXTENSIONS == {"png", "jpg", "jpeg"}
ALLOWED_VIDEO_EXTENSIONS == {"mp4", "avi", "mov"}
ALLOWED_EXTENSIONS == ALLOWED_IMAGE_EXTENSIONS \cup ALLOWED_VIDEO_EXTENSIONS

VARIABLES
    entry,                 \* "frame" | "image" | "video" | "upload"
    pc,                    \* position in the code
    env,                   \* what the input file holds and the collaborators do
    inputExists,           \* os.path.exists(input_path)
    output,                \* the file at output_path: [created, frames]
    cap, out,              \* "unbound" | "closed" | "open" | "released"
    framesRead,            \* frames cap.read() has returned
    frame_count,
    total_faces_detected,
    reports,               \* progress lines printed
    detectorCalls,         \* calls of detect_and_blur_faces (the detector runs in it)
    removeAttempted,       \* os.remove(input_path) was called by the pipeline
    removeFailed,          \* ... and raised
    exc,                   \* the exception in flight or handled, "none" if none
    exitPath,              \* which way the pipeline left: see ExitPaths
    result,                \* what the pipeline returned (or raised)
    request,               \* upload_file: the posted file
    response,              \* upload_file: the response returned
    det,                   \* detect_and_blur_faces: the detection in hand
    region,                \* ... the bbox it passes to blur_face_region
    blurred,               \* ... the rectangle blur_face_region blurs
    faces_detected,
    remaining              \* detections of results.detections not yet seen

vars == <<entry, pc, env, inputExists, output, cap, out, framesRead,
          frame_count, total_faces_detected, reports, detectorCalls,
          removeAttempted, removeFailed, exc, exitPath, result, request,
          response, det, region, blurred, faces_detected, remaining>>

pipeVars == <<framesRead, frame_count, total_faces_detected, reports,
              detectorCalls, removeAttempted, removeFailed>>
webVars == <<request, response>>
geomVars == <<det, region, blurred, faces_detected, remaining>>

\* --------------------------------------------------------------- helpers
Max(a, b) == IF a >= b THEN a ELSE b
Min(a, b) == IF a <= b THEN a ELSE b

\* Python's int() of the float num/Denom * dim: truncation toward zero.
IntOf(num, dim) ==
    IF num * dim >= 0 THEN (num * dim) \div Denom
    ELSE -((-(num * dim)) \div Denom)

\* str.lower() on the extensions that occur.
Lower(s) ==
    CASE s = "JPG" -> "jpg"
      [] s = "MP4" -> "mp4"
      [] OTHER -> s

\* ------------------------------------------------------------- messages
Msg(text, cause, faces, frames) ==
    [text |-> text, cause |-> cause, faces |-> faces, frames |-> frames]

NoResult == [kind |-> "none", success |-> FALSE, message |-> Msg("", "", 0, 0)]
Returned(ok, m) == [kind |-> "returned", success |-> ok, message |-> m]
Escaped(e) == [kind |-> "raised", success |-> FALSE, message |-> Msg("", e, 0, 0)]

MsgNotFound == Msg("Input file not found", "", 0, 0)
MsgImageUnreadable ==
    Msg("Could not read image file. Please check the file format.", "", 0, 0)
MsgImageSaveFailed == Msg("Failed to save processed image", "", 0, 0)
MsgImageOk(n) ==
    Msg("Successfully processed image. {faces} face(s) detected and blurred.",
        "", n, 0)
MsgImageError(e) == Msg("Error processing image: ", e, 0, 0)
MsgVideoUnopenable ==
    Msg("Could not open video file. Please check the file format.", "", 0, 0)
MsgVideoNoWriter == Msg("Could not create output video file", "", 0, 0)
MsgVideoOk(n, m) ==
    Msg("Successfully processed video. {faces} face instances detected and blurred across {frames} frames.",
        "", n, m)
MsgVideoError(e) == Msg("Error processing video: ", e, 0, 0)

\* The exceptions the collaborators raise (the model's injected faults);
\* ZeroDivisionError is the program's own.
InjectedFaults ==
    {"VideoCapture", "cap.get", "VideoWriter", "cap.read", "detect",
     "out.write", "imread", "imwrite", "file.save"}

ExitPaths ==
    {"none", "missing", "unreadable", "unopenable", "nowriter", "savefailed",
     "completed", "exception"}

\* Where a pipeline's return goes: back into upload_file, or to the caller.
ReturnTo == IF entry = "upload" THEN "u_respond" ELSE "done"

\* ------------------------------------------------- blur_faces_in_video
\* face_blur.py:148-151  the existence check.
VideoCheckExists ==
    /\ pc = "v_start"
    /\ IF inputExists
       THEN /\ pc' = "v_open"
            /\ UNCHANGED <<result, exitPath>>
       ELSE /\ result' = Returned(FALSE, MsgNotFound)
            /\ exitPath' = "missing"
            /\ pc' = ReturnTo
    /\ UNCHANGED <<entry, env, inputExists, output, cap, out, exc>>
    /\ UNCHANGED <<pipeVars, webVars, geomVars>>

\* face_blur.py:153-157  cap = cv2.VideoCapture(input_path); the early
\* return when it did not open calls no release.
VideoOpen ==
    /\ pc = "v_open"
    /\ \E raised \in BOOLEAN :
         IF raised
         THEN /\ exc' = "VideoCapture"
              /\ pc' = "v_except"
              /\ UNCHANGED <<cap, result, exitPath>>
         ELSE IF env.openable
         THEN /\ cap' = "open"
              /\ pc' = "v_props"
              /\ UNCHANGED <<exc, result, exitPath>>
         ELSE /\ cap' = "closed"
              /\ result' = Returned(FALSE, MsgVideoUnopenable)
              /\ exitPath' = "unopenable"
              /\ pc' = ReturnTo
              /\ UNCHANGED exc
    /\ UNCHANGED <<entry, env, inputExists, output, out>>
    /\ UNCHANGED <<pipeVars, webVars, geomVars>>

\* face_blur.py:159-163  fps, width, height, total_frames = int(cap.get(..)).
VideoProps ==
    /\ pc = "v_props"
    /\ \E raised \in BOOLEAN :
         IF raised
         THEN exc' = "cap.get" /\ pc' = "v_except"
         ELSE exc' = exc /\ pc' = "v_writer"
    /\ UNCHANGED <<entry, env, inputExists, output, cap, out, exitPath, result>>
    /\ UNCHANGED <<pipeVars, webVars, geomVars>>

\* face_blur.py:165-171  out = cv2.VideoWriter(...); when it did not open,
\* cap.release() and the early return (out itself gets no release).
VideoWriter ==
    /\ pc = "v_writer"
    /\ \E raised \in BOOLEAN :
         IF raised
         THEN /\ exc' = "VideoWriter"
              /\ pc' = "v_except"
              /\ UNCHANGED <<cap, out, output, result, exitPath>>
         ELSE IF env.writerOk
         THEN /\ out' = "open"
              /\ output' = [created |-> TRUE, frames |-> <<>>]
              /\ pc' = "v_read"
              /\ UNCHANGED <<cap, exc, result, exitPath>>
         ELSE /\ out' = "closed"
              /\ cap' = "released"
              /\ result' = Returned(FALSE, MsgVideoNoWriter)
              /\ exitPath' = "nowriter"
              /\ pc' = ReturnTo
              /\ UNCHANGED <<output, exc>>
    /\ UNCHANGED <<entry, env, inputExists>>
    /\ UNCHANGED <<pipeVars, webVars, geomVars>>

\* face_blur.py:179-183  ret, frame = cap.read(); break at end of stream
\* (the loop has then completed normally). The reported total_frames plays
\* no part.
VideoRead ==
    /\ pc = "v_read"
    /\ \E raised \in BOOLEAN :
         IF raised
         THEN /\ exc' = "cap.read"
              /\ pc' = "v_except"
              /\ UNCHANGED <<framesRead, exitPath>>
         ELSE IF framesRead < env.frames
         THEN /\ framesRead' = framesRead + 1
              /\ pc' = "v_detect"
              /\ UNCHANGED <<exc, exitPath>>
         ELSE /\ pc' = "v_release"
              /\ exitPath' = "completed"
              /\ UNCHANGED <<framesRead, exc>>
    /\ UNCHANGED <<entry, env, inputExists, output, cap, out, result>>
    /\ UNCHANGED <<frame_count, total_faces_detected, reports, detectorCalls,
                   removeAttempted, removeFailed>>
    /\ UNCHANGED <<webVars, geomVars>>

\* Mutant of VideoDetect: a failing detection skips the frame and the loop
\* goes on.
VideoDetect_SkipsFrame ==
    /\ pc = "v_detect"
    /\ detectorCalls' = detectorCalls + 1
    /\ \E raised \in BOOLEAN :
         IF raised
         THEN /\ exc' = "detect"
              /\ pc' = "v_read"
              /\ UNCHANGED total_faces_detected
         ELSE /\ total_faces_detected' = total_faces_detected + env.faces
              /\ pc' = "v_write"
              /\ UNCHANGED exc
    /\ UNCHANGED <<entry, env, inputExists, output, cap, out, exitPath, result>>
    /\ UNCHANGED <<framesRead, frame_count, reports, removeAttempted, removeFailed>>
    /\ UNCHANGED <<webVars, geomVars>>

\* face_blur.py:185-187  processed_frame, faces_in_frame =
\* detect_and_blur_faces(frame); an exception of the detector propagates.
VideoDetect ==
    /\ pc = "v_detect"
    /\ detectorCalls' = detectorCalls + 1
    /\ \E raised \in BOOLEAN :
         IF raised
         THEN /\ exc' = "detect"
              /\ pc' = "v_except"
              /\ UNCHANGED total_faces_detected
         ELSE /\ total_faces_detected' = total_faces_detected + env.faces
              /\ pc' = "v_write"
              /\ UNCHANGED exc
    /\ UNCHANGED <<entry, env, inputExists, output, cap, out, exitPath, result>>
    /\ UNCHANGED <<framesRead, frame_count, reports, removeAttempted, removeFailed>>
    /\ UNCHANGED <<webVars, geomVars>>

\* face_blur.py:189-192  out.write(processed_frame); frame_count += 1.
VideoWrite ==
    /\ pc = "v_write"
    /\ \E raised \in BOOLEAN :
         IF raised
         THEN /\ exc' = "out.write"
              /\ pc' = "v_except"
              /\ UNCHANGED <<output, frame_count>>
         ELSE /\ output' = [output EXCEPT !.frames = Append(@, framesRead)]
              /\ frame_count' = frame_count + 1
              /\ pc' = "v_progress"
              /\ UNCHANGED exc
    /\ UNCHANGED <<entry, env, inputExists, cap, out, exitPath, result>>
    /\ UNCHANGED <<framesRead, total_faces_detected, reports, detectorCalls,
                   removeAttempted, removeFailed>>
    /\ UNCHANGED <<webVars, geomVars>>

\* face_blur.py:194-197  every 30 frames: progress = (frame_count /
\* total_frames) * 100, a float division that raises ZeroDivisionError
\* when the container reported no frames.
VideoProgress ==
    /\ pc = "v_progress"
    /\ IF frame_count % PROGRESS_EVERY = 0
       THEN IF env.total_frames = 0
            THEN /\ exc' = "ZeroDivisionError"
                 /\ pc' = "v_except"
                 /\ UNCHANGED reports
            ELSE /\ reports' = reports + 1
                 /\ pc' = "v_read"
                 /\ UNCHANGED exc
       ELSE /\ pc' = "v_read"
            /\ UNCHANGED <<reports, exc>>
    /\ UNCHANGED <<entry, env, inputExists, output, cap, out, exitPath, result>>
    /\ UNCHANGED <<framesRead, frame_count, total_faces_detected, detectorCalls,
                   removeAttempted, removeFailed>>
    /\ UNCHANGED <<webVars, geomVars>>

\* face_blur.py:199-201  cap.release(); out.release().
VideoRelease ==
    /\ pc = "v_release"
    /\ cap' = "released"
    /\ out' = "released"
    /\ pc' = "v_remove"
    /\ UNCHANGED <<entry, env, inputExists, output, exc, exitPath, result>>
    /\ UNCHANGED <<pipeVars, webVars, geomVars>>

\* Mutant of VideoRemove: no try around os.remove, its failure reaches the
\* function's handler.
VideoRemove_Propagates ==
    /\ pc = "v_remove"
    /\ removeAttempted' = TRUE
    /\ \E raised \in BOOLEAN :
         /\ removeFailed' = raised
         /\ inputExists' = IF raised THEN inputExists ELSE FALSE
         /\ exc' = IF raised THEN "os.remove" ELSE exc
         /\ pc' = IF raised THEN "v_except" ELSE "v_return"
    /\ UNCHANGED <<entry, env, output, cap, out, exitPath, result>>
    /\ UNCHANGED <<framesRead, frame_count, total_faces_detected, reports,
                   detectorCalls>>
    /\ UNCHANGED <<webVars, geomVars>>

\* face_blur.py:203-207  try: os.remove(input_path) except: pass.
VideoRemove ==
    /\ pc = "v_remove"
    /\ removeAttempted' = TRUE
    /\ \E raised \in BOOLEAN :
         /\ removeFailed' = raised
         /\ inputExists' = IF raised THEN inputExists ELSE FALSE
    /\ pc' = "v_return"
    /\ UNCHANGED <<entry, env, output, cap, out, exc, exitPath, result>>
    /\ UNCHANGED <<framesRead, frame_count, total_faces_detected, reports,
                   detectorCalls>>
    /\ UNCHANGED <<webVars, geomVars>>

\* face_blur.py:209-210  the success message and return True, message.
VideoReturn ==
    /\ pc = "v_return"
    /\ result' = Returned(TRUE, MsgVideoOk(total_faces_detected, frame_count))
    /\ pc' = ReturnTo
    /\ UNCHANGED <<entry, env, inputExists, output, cap, out, exc, exitPath>>
    /\ UNCHANGED <<pipeVars, webVars, geomVars>>

\* Mutant of VideoExcept: the handler releases cap and forgets out.
VideoExcept_ForgetsOut ==
    /\ pc = "v_except"
    /\ cap' = IF cap # "unbound" THEN "released" ELSE cap
    /\ result' = Returned(FALSE, MsgVideoError(exc))
    /\ exitPath' = "exception"
    /\ pc' = ReturnTo
    /\ UNCHANGED <<entry, env, inputExists, output, out, exc>>
    /\ UNCHANGED <<pipeVars, webVars, geomVars>>

\* face_blur.py:212-222  except Exception as e: release what is bound
\* ('cap' in locals(), 'out' in locals()) and return False with str(e).
VideoExcept ==
    /\ pc = "v_except"
    /\ cap' = IF cap # "unbound" THEN "released" ELSE cap
    /\ out' = IF out # "unbound" THEN "released" ELSE out
    /\ result' = Returned(FALSE, MsgVideoError(exc))
    /\ exitPath' = "exception"
    /\ pc' = ReturnTo
    /\ UNCHANGED <<entry, env, inputExists, output, exc>>
    /\ UNCHANGED <<pipeVars, webVars, geomVars>>

blur_faces_in_video ==
    \/ VideoCheckExists \/ VideoOpen \/ VideoProps \/ VideoWriter
    \/ VideoRead \/ VideoDetect \/ VideoWrite \/ VideoProgress
    \/ VideoRelease \/ VideoRemove \/ VideoReturn \/ VideoExcept

\* ------------------------------------------------- blur_faces_in_image
\* face_blur.py:111-114  the existence check.
ImageCheckExists ==
    /\ pc = "i_start"
    /\ IF inputExists
       THEN /\ pc' = "i_read"
            /\ UNCHANGED <<result, exitPath>>
       ELSE /\ result' = Returned(FALSE, MsgNotFound)
            /\ exitPath' = "missing"
            /\ pc' = ReturnTo
    /\ UNCHANGED <<entry, env, inputExists, output, cap, out, exc>>
    /\ UNCHANGED <<pipeVars, webVars, geomVars>>

\* Mutant of ImageRead: no check of the None that imread returns.
ImageRead_NoNoneCheck ==
    /\ pc = "i_read"
    /\ \E raised \in BOOLEAN :
         IF raised
         THEN exc' = "imread" /\ pc' = "i_except"
         ELSE exc' = exc /\ pc' = "i_detect"
    /\ UNCHANGED <<entry, env, inputExists, output, cap, out, result, exitPath>>
    /\ UNCHANGED <<pipeVars, webVars, geomVars>>

\* face_blur.py:116-120  image = cv2.imread(input_path); None when the file
\* does not decode.
ImageRead ==
    /\ pc = "i_read"
    /\ \E raised \in BOOLEAN :
         IF raised
         THEN /\ exc' = "imread"
              /\ pc' = "i_except"
              /\ UNCHANGED <<result, exitPath>>
         ELSE IF env.readable
         THEN /\ pc' = "i_detect"
              /\ UNCHANGED <<exc, result, exitPath>>
         ELSE /\ result' = Returned(FALSE, MsgImageUnreadable)
              /\ exitPath' = "unreadable"
              /\ pc' = ReturnTo
              /\ UNCHANGED exc
    /\ UNCHANGED <<entry, env, inputExists, output, cap, out>>
    /\ UNCHANGED <<pipeVars, webVars, geomVars>>

\* face_blur.py:122-123  processed_image, faces_count =
\* detect_and_blur_faces(image).
ImageDetect ==
    /\ pc = "i_detect"
    /\ detectorCalls' = detectorCalls + 1
    /\ \E raised \in BOOLEAN :
         IF raised
         THEN /\ exc' = "detect"
              /\ pc' = "i_except"
              /\ UNCHANGED faces_detected
         ELSE /\ faces_detected' = env.faces
              /\ pc' = "i_write"
              /\ UNCHANGED exc
    /\ UNCHANGED <<entry, env, inputExists, output, cap, out, exitPath, result>>
    /\ UNCHANGED <<framesRead, frame_count, total_faces_detected, reports,
                   removeAttempted, removeFailed>>
    /\ UNCHANGED <<webVars, det, region, blurred, remaining>>

\* face_blur.py:125-132  success = cv2.imwrite(output_path, processed_image).
ImageWrite ==
    /\ pc = "i_write"
    /\ \E raised \in BOOLEAN :
         IF raised
         THEN /\ exc' = "imwrite"
              /\ pc' = "i_except"
              /\ UNCHANGED <<output, result, exitPath>>
         ELSE IF env.writerOk
         THEN /\ output' = [created |-> TRUE, frames |-> <<1>>]
              /\ result' = Returned(TRUE, MsgImageOk(faces_detected))
              /\ exitPath' = "completed"
              /\ pc' = ReturnTo
              /\ UNCHANGED exc
         ELSE /\ result' = Returned(FALSE, MsgImageSaveFailed)
              /\ exitPath' = "savefailed"
              /\ pc' = ReturnTo
              /\ UNCHANGED <<output, exc>>
    /\ UNCHANGED <<entry, env, inputExists, cap, out>>
    /\ UNCHANGED <<pipeVars, webVars, geomVars>>

\* Mutant of ImageExcept: the handler re-raises.
ImageExcept_Reraises ==
    /\ pc = "i_except"
    /\ result' = Escaped(exc)
    /\ exitPath' = "exception"
    /\ pc' = ReturnTo
    /\ UNCHANGED <<entry, env, inputExists, output, cap, out, exc>>
    /\ UNCHANGED <<pipeVars, webVars, geomVars>>

\* face_blur.py:134-135  except Exception as e: return False, f"Error ...".
ImageExcept ==
    /\ pc = "i_except"
    /\ result' = Returned(FALSE, MsgImageError(exc))
    /\ exitPath' = "exception"
    /\ pc' = ReturnTo
    /\ UNCHANGED <<entry, env, inputExists, output, cap, out, exc>>
    /\ UNCHANGED <<pipeVars, webVars, geomVars>>

blur_faces_in_image ==
    \/ ImageCheckExists \/ ImageRead \/ ImageDetect \/ ImageWrite
    \/ ImageExcept

\* ------------------------------------------------ detect_and_blur_faces
Rect(x, y, width, height) ==
    [x |-> x, y |-> y, width |-> width, height |-> height]

\* No rectangle: nothing passed, nothing blurred.
Nothing == Rect(0, 0, 0, 0)

\* A relative bounding box, its four fields numerators over Denom.
RelBox(xmin, ymin, width, height) ==
    [xmin |-> xmin, ymin |-> ymin, width |-> width, height |-> height]

\* face_blur.py:81-85  relative to absolute coordinates, by int().
PixelBox(bbox, w, h) ==
    Rect(IntOf(bbox.xmin, w), IntOf(bbox.ymin, h),
         IntOf(bbox.width, w), IntOf(bbox.height, h))

\* Mutant of PaddedRegion: the caps forget the origin (w instead of w - x).
PaddedRegion_CapsAtFrameSize(box, w, h) ==
    LET x == Max(0, box.x - padding)
        y == Max(0, box.y - padding)
    IN  Rect(x, y,
             Min(box.width + 2 * padding, w),
             Min(box.height + 2 * padding, h))

\* face_blur.py:87-92  the padding: the origin moves first, and the width
\* and height are capped against the moved origin.
PaddedRegion(box, w, h) ==
    LET x == Max(0, box.x - padding)
        y == Max(0, box.y - padding)
    IN  Rect(x, y,
             Min(box.width + 2 * padding, w - x),
             Min(box.height + 2 * padding, h - y))

\* face_blur.py:28-46  blur_face_region: the rectangle it blurs, Nothing
\* when it returns the image untouched.
blur_face_region(w, h, bbox) ==
    LET x == Max(0, bbox.x)
        y == Max(0, bbox.y)
        bw == Min(bbox.width, w - x)
        bh == Min(bbox.height, h - y)
    IN  IF bw <= 0 \/ bh <= 0 THEN Nothing ELSE Rect(x, y, bw, bh)

\* What the detector may report: boxes inside the frame and boxes that
\* stick out of it on either side (MediaPipe does not clip its boxes).
RelBoxes ==
    { RelBox(a, b, c, d) :
        a \in -1 .. Denom + 1, b \in -1 .. Denom + 1,
        c \in 0 .. Denom, d \in 0 .. Denom }

\* face_blur.py:61-75  the detector runs; results.detections has somewhere
\* between no and MaxDetections entries.
DetectProcess ==
    /\ pc = "d_start"
    /\ detectorCalls' = detectorCalls + 1
    /\ faces_detected' = 0
    /\ remaining' \in 0 .. MaxDetections
    /\ pc' = "d_loop"
    /\ UNCHANGED <<entry, env, inputExists, output, cap, out, exc, exitPath,
                   result>>
    /\ UNCHANGED <<framesRead, frame_count, total_faces_detected, reports,
                   removeAttempted, removeFailed>>
    /\ UNCHANGED <<webVars, det, region, blurred>>

\* face_blur.py:76-95  one detection: its region, and the blur of it.
DetectBlur ==
    /\ pc = "d_loop"
    /\ remaining > 0
    /\ \E bbox \in RelBoxes :
         LET r == PaddedRegion(PixelBox(bbox, env.w, env.h), env.w, env.h)
         IN  /\ det' = bbox
             /\ region' = r
             /\ blurred' = blur_face_region(env.w, env.h, r)
    /\ pc' = "d_blurred"
    /\ UNCHANGED <<entry, env, inputExists, output, cap, out, exc,
                   exitPath, result, faces_detected, remaining>>
    /\ UNCHANGED <<pipeVars, webVars>>

\* face_blur.py:96 and back to 76  faces_detected += 1; the iteration's
\* locals (bbox, x, y, width, height) are dead and the next detection
\* rebinds them.
DetectCount ==
    /\ pc = "d_blurred"
    /\ faces_detected' = faces_detected + 1
    /\ remaining' = remaining - 1
    /\ det' = RelBox(0, 0, 0, 0)
    /\ region' = Nothing
    /\ blurred' = Nothing
    /\ pc' = "d_loop"
    /\ UNCHANGED <<entry, env, inputExists, output, cap, out, exc,
                   exitPath, result>>
    /\ UNCHANGED <<pipeVars, webVars>>

\* face_blur.py:98  return image, faces_detected.
DetectReturn ==
    /\ pc = "d_loop"
    /\ remaining = 0
    /\ pc' = "done"
    /\ UNCHANGED <<entry, env, inputExists, output, cap, out, exc, exitPath,
                   result>>
    /\ UNCHANGED <<pipeVars, webVars, geomVars>>

detect_and_blur_faces ==
    DetectProcess \/ DetectBlur \/ DetectCount \/ DetectReturn

\* ------------------------------------------------------------ app.py
\* A file name: its stem (ASCII or not), whether it has a dot, and what
\* follows the last dot.
Name(stem, ascii, hasDot, ext) ==
    [stem |-> stem, ascii |-> ascii, hasDot |-> hasDot, ext |-> ext]

EmptyName == Name("", TRUE, FALSE, "")

Filenames ==
    { EmptyName,
      Name("photo", TRUE, TRUE, "jpg"),
      Name("photo", TRUE, TRUE, "JPG"),
      Name("clip", TRUE, TRUE, "mp4"),
      Name("notes", TRUE, TRUE, "txt"),
      Name("README", TRUE, FALSE, ""),
      Name("stem", FALSE, TRUE, "jpg") }

\* app.py:30-32
allowed_file(filename) ==
    filename.hasDot /\ Lower(filename.ext) \in ALLOWED_EXTENSIONS

\* app.py:34-36
is_image_file(filename) ==
    filename.hasDot /\ Lower(filename.ext) \in ALLOWED_IMAGE_EXTENSIONS

\* app.py:38-40
is_video_file(filename) ==
    filename.hasDot /\ Lower(filename.ext) \in ALLOWED_VIDEO_EXTENSIONS

\* app.py:69  werkzeug's secure_filename: the non-ASCII characters go, and
\* so do the dots left at either end; a name whose stem has no ASCII
\* character comes back as its bare extension, without a dot.
secure_filename(filename) ==
    IF filename.ascii THEN filename
    ELSE Name(filename.ext, TRUE, FALSE, "")

\* app.py:42-46  "<uuid>.<extension>", the extension lower-cased, empty when
\* the name has no dot.
generate_unique_filename(original_filename) ==
    Name("uuid", TRUE, TRUE,
         IF original_filename.hasDot THEN Lower(original_filename.ext) ELSE "")

\* app.py:69-70
UniqueOf(filename) == generate_unique_filename(secure_filename(filename))

NoRequest == [hasFile |-> FALSE, filename |-> EmptyName]
Requests == [hasFile : BOOLEAN, filename : Filenames]

Response(status, kind, message) ==
    [status |-> status, kind |-> kind, message |-> message]
NoResponse == Response(0, "none", Msg("", "", 0, 0))

\* app.py:56-66  the three rejections.
UploadValidate ==
    /\ pc = "u_start"
    /\ IF ~request.hasFile \/ request.filename = EmptyName
       THEN /\ response' = Response(400, "No file selected", Msg("", "", 0, 0))
            /\ pc' = "done"
       ELSE IF ~allowed_file(request.filename)
       THEN /\ response' = Response(400, "File type not supported",
                                    Msg("", "", 0, 0))
            /\ pc' = "done"
       ELSE /\ pc' = "u_save"
            /\ UNCHANGED response
    /\ UNCHANGED <<entry, env, inputExists, output, cap, out, exc, exitPath,
                   result, request>>
    /\ UNCHANGED <<pipeVars, geomVars>>

\* app.py:68-99  file.save(filepath), then the branch on the unique name:
\* the image pipeline, the video pipeline, or neither.
UploadSave ==
    /\ pc = "u_save"
    /\ \E raised \in BOOLEAN :
         IF raised
         THEN /\ exc' = "file.save"
              /\ pc' = "u_except"
              /\ UNCHANGED inputExists
         ELSE /\ inputExists' = TRUE
              /\ pc' = IF is_image_file(UniqueOf(request.filename))
                         THEN "i_start"
                       ELSE IF is_video_file(UniqueOf(request.filename))
                         THEN "v_start"
                       ELSE "u_cleanup"
              /\ UNCHANGED exc
    /\ UNCHANGED <<entry, env, output, cap, out, exitPath, result>>
    /\ UNCHANGED <<pipeVars, webVars, geomVars>>

\* app.py:83-92 and 101-110  both branches return their response here;
\* nothing after them runs.
UploadRespond ==
    /\ pc = "u_respond"
    /\ response' =
         IF result.success
         THEN Response(200, "success", result.message)
         ELSE Response(500,
                       IF is_image_file(UniqueOf(request.filename))
                       THEN "Failed to process image: "
                       ELSE "Failed to process video: ",
                       result.message)
    /\ pc' = "done"
    /\ UNCHANGED <<entry, env, inputExists, output, cap, out, exc, exitPath,
                   result, request>>
    /\ UNCHANGED <<pipeVars, geomVars>>

\* app.py:112-116  try: os.remove(filepath) except: pass, reached only when
\* the unique name is neither an image nor a video; the function then ends
\* without a return value.
UploadCleanup ==
    /\ pc = "u_cleanup"
    /\ \E raised \in BOOLEAN :
         inputExists' = IF raised THEN inputExists ELSE FALSE
    /\ response' = Response(0, "None", Msg("", "", 0, 0))
    /\ pc' = "done"
    /\ UNCHANGED <<entry, env, output, cap, out, exc, exitPath, result,
                   request>>
    /\ UNCHANGED <<pipeVars, geomVars>>

\* app.py:120-121  except Exception as e: the 500 response.
UploadExcept ==
    /\ pc = "u_except"
    /\ response' = Response(500, "An error occurred: ", Msg("", exc, 0, 0))
    /\ pc' = "done"
    /\ UNCHANGED <<entry, env, inputExists, output, cap, out, exc, exitPath,
                   result, request>>
    /\ UNCHANGED <<pipeVars, geomVars>>

upload_file ==
    \/ UploadValidate \/ UploadSave \/ UploadRespond \/ UploadCleanup
    \/ UploadExcept

\* ------------------------------------------------------------- inputs
Env(exists, readable, openable, writerOk, frames, total_frames, faces, w, h) ==
    [exists |-> exists, readable |-> readable, openable |-> openable,
     writerOk |-> writerOk, frames |-> frames, total_frames |-> total_frames,
     faces |-> faces, w |-> w, h |-> h]

\* One frame of w x h pixels, handed to detect_and_blur_faces.
FrameEnvs ==
    { Env(FALSE, TRUE, FALSE, FALSE, 0, 0, 0, w, h) :
        w \in FrameDims, h \in FrameDims }

\* An image file: there or not, decodable or not; the output writable or
\* not; the faces the detector finds in it.
ImageEnvs(existing) ==
    { Env(e, r, FALSE, ok, 0, 0, f, 0, 0) :
        e \in existing, r \in BOOLEAN, ok \in BOOLEAN, f \in 0 .. MaxFaces }

\* What CAP_PROP_FRAME_COUNT may report for a stream of n frames: nothing,
\* the truth, or something else.
ReportedTotals(n) == {0, n, n + 1}

\* A video file: there or not, openable or not; the writer opens or not;
\* the frames it decodes, the total its container reports, and the faces
\* the detector finds in each frame.
VideoEnvs(existing) ==
    UNION { { Env(e, FALSE, o, ok, n, t, f, 0, 0) :
                e \in existing, o \in BOOLEAN, ok \in BOOLEAN,
                t \in ReportedTotals(n), f \in 0 .. MaxFaces } :
            n \in 0 .. MaxFrames }

NoFileEnv == Env(FALSE, FALSE, FALSE, FALSE, 0, 0, 0, 0, 0)

\* The file an upload carries: what its name promises, or nothing usable.
\* The path it is saved under is fresh, so nothing exists there yet.
UploadEnvs(req) ==
    IF is_image_file(UniqueOf(req.filename)) THEN ImageEnvs({FALSE})
    ELSE IF is_video_file(UniqueOf(req.filename)) THEN VideoEnvs({FALSE})
    ELSE {NoFileEnv}

Init ==
    /\ entry \in {"frame", "image", "video", "upload"}
    /\ request \in (IF entry = "upload" THEN Requests ELSE {NoRequest})
    /\ env \in (CASE entry = "frame" -> FrameEnvs
                  [] entry = "image" -> ImageEnvs(BOOLEAN)
                  [] entry = "video" -> VideoEnvs(BOOLEAN)
                  [] entry = "upload" -> UploadEnvs(request))
    /\ pc = (CASE entry = "frame" -> "d_start"
               [] entry = "image" -> "i_start"
               [] entry = "video" -> "v_start"
               [] entry = "upload" -> "u_start")
    /\ inputExists = env.exists
    /\ output = [created |-> FALSE, frames |-> <<>>]
    /\ cap = "unbound"
    /\ out = "unbound"
    /\ framesRead = 0
    /\ frame_count = 0
    /\ total_faces_detected = 0
    /\ reports = 0
    /\ detectorCalls = 0
    /\ removeAttempted = FALSE
    /\ removeFailed = FALSE
    /\ exc = "none"
    /\ exitPath = "none"
    /\ result = NoResult
    /\ response = NoResponse
    /\ det = RelBox(0, 0, 0, 0)
    /\ region = Nothing
    /\ blurred = Nothing
    /\ faces_detected = 0
    /\ remaining = 0

Next ==
    \/ detect_and_blur_faces
    \/ blur_faces_in_image
    \/ blur_faces_in_video
    \/ upload_file

Spec == Init /\ [][Next]_vars

\* ============================================================== claims
\* The pipeline has returned to its caller (or raised into it).
Returned_ == result.kind # "none"

\* The call in hand is a call of blur_faces_in_video / blur_faces_in_image.
InVideo ==
    \/ entry = "video"
    \/ entry = "upload" /\ is_video_file(UniqueOf(request.filename))
InImage ==
    \/ entry = "image"
    \/ entry = "upload" /\ is_image_file(UniqueOf(request.filename))

\* A valid video: the file is there, it opens, the writer opens, and no
\* collaborator raises.
ValidVideoRun ==
    /\ InVideo
    /\ entry = "video" => env.exists
    /\ env.openable
    /\ env.writerOk
    /\ exc \notin InjectedFaults

\* The frames 1 .. n in decode order.
FramesUpTo(n) == [i \in 1 .. n |-> i]

\* ---- C1
\* C1: when blur_faces_in_video has returned, by whichever path, no stream
\* it opened is still open: cap and out are released if they were opened;
\* after a normal end of stream and after an exception both are released
\* (when bound), and after the writer failed to open cap is released.
C1_StreamsReleased ==
    (InVideo /\ Returned_) =>
        /\ cap # "open"
        /\ out # "open"
        /\ exitPath = "completed" => cap = "released" /\ out = "released"
        /\ exitPath = "nowriter" => cap = "released"
        /\ exitPath = "exception" =>
              cap \in {"unbound", "released"} /\ out \in {"unbound", "released"}

\* Witness of C1: an exception in the frame loop, both streams open before
\* it, both released at the return.
C1_Witness ==
    /\ InVideo /\ Returned_
    /\ exitPath = "exception" /\ exc = "out.write"
    /\ framesRead > 1
    /\ cap = "released" /\ out = "released"

\* ---- C2
\* C2: whatever total the container reports, a valid video of N frames is
\* processed to the end: the call returns success with all N frames counted
\* and written; progress reporting never fails it.
C2_TotalIsAdvisory ==
    (ValidVideoRun /\ Returned_) =>
        /\ result.success
        /\ frame_count = env.frames
        /\ Len(output.frames) = env.frames

\* ---- C3
\* C3: no exception escapes blur_faces_in_image or blur_faces_in_video:
\* whenever a call has ended it has returned a (success, message) pair, and
\* a failure carries a non-empty message.
C3_NoEscape ==
    /\ result.kind # "raised"
    /\ (pc = "u_respond" \/ (pc = "done" /\ entry \in {"image", "video"})) =>
          result.kind = "returned"
    /\ (result.kind = "returned" /\ ~result.success) =>
          result.message.text # ""

\* Witness of C3: a fault of the detector in the image pipeline, returned
\* as a failure.
C3_Witness ==
    /\ InImage /\ exc = "detect"
    /\ result = Returned(FALSE, MsgImageError("detect"))

\* ---- C4
\* C4: for a valid video of N frames, every frame is written once, in
\* decode order, before the next is read; the call returns success, the
\* message counts N frames and the output holds frames 1..N.
C4_OneWritePerFrame ==
    ValidVideoRun =>
        /\ output.frames = FramesUpTo(Len(output.frames))
        /\ Len(output.frames) \in {framesRead - 1, framesRead}
        /\ Returned_ =>
              /\ result.success
              /\ result.message.frames = env.frames
              /\ output.frames = FramesUpTo(env.frames)

\* ---- C5
\* The relative box lies strictly inside the unit square.
StrictlyInside(bbox) ==
    /\ 0 < bbox.xmin /\ 0 < bbox.ymin
    /\ 0 < bbox.width /\ 0 < bbox.height
    /\ bbox.xmin + bbox.width < Denom
    /\ bbox.ymin + bbox.height < Denom

InFrame(r) ==
    /\ 0 <= r.x /\ 0 <= r.y
    /\ r.width >= 0 /\ r.height >= 0
    /\ r.x + r.width <= env.w
    /\ r.y + r.height <= env.h

\* C5: for a detection strictly inside the unit square, the region that
\* detect_and_blur_faces computes lies within the frame, and it is the
\* rectangle blur_face_region blurs.
C5_RegionInFrame ==
    (pc = "d_blurred" /\ StrictlyInside(det)) =>
        /\ InFrame(region)
        /\ blurred = region

\* Witness of C5: a padded box that starts inside the frame and is cut at
\* its right edge.
C5_Witness ==
    /\ pc = "d_blurred" /\ StrictlyInside(det)
    /\ region.x > 0
    /\ region.x + region.width = env.w
    /\ region.width < PixelBox(det, env.w, env.h).width + 2 * padding

\* ---- C6
\* C6: the region is the pixel box grown by padding on every side, then
\* clipped: left/top max(0, x0 - padding), max(0, y0 - padding), right/bottom
\* min(w, x0 + w0 + padding), min(h, y0 + h0 + padding).
C6_SymmetricPadding ==
    (pc = "d_blurred" /\ StrictlyInside(det)) =>
        LET b == PixelBox(det, env.w, env.h)
        IN  /\ region.x = Max(0, b.x - padding)
            /\ region.y = Max(0, b.y - padding)
            /\ region.x + region.width = Min(env.w, b.x + b.width + padding)
            /\ region.y + region.height = Min(env.h, b.y + b.height + padding)

\* ---- C7
\* C7 as stated: after a detection failure on one frame, the frames after
\* it are still read, processed and written.
C7_FailureIsLocal ==
    (InVideo /\ Returned_ /\ exc = "detect") =>
        \A i \in framesRead + 1 .. env.frames :
            \E k \in 1 .. Len(output.frames) : output.frames[k] = i

\* C7 amended: a detection failure on one frame aborts the video: no later
\* frame is read, processed or written, the frames before it stay written,
\* both streams are released, the input is not deleted, and the call
\* returns failure with the cause.
C7_FailureAborts ==
    (InVideo /\ Returned_ /\ exc = "detect") =>
        /\ result = Returned(FALSE, MsgVideoError("detect"))
        /\ detectorCalls = framesRead
        /\ frame_count = framesRead - 1
        /\ output.frames = FramesUpTo(framesRead - 1)
        /\ cap = "released" /\ out = "released"
        /\ ~removeAttempted

\* Witness of C7: the detection fails on a frame that has frames on both
\* sides.
C7_Witness ==
    /\ InVideo /\ Returned_ /\ exc = "detect"
    /\ 1 < framesRead /\ framesRead < env.frames

\* ---- C8
\* C8: os.remove(input_path) is attempted exactly when the frame loop has
\* completed normally, and only after both streams are released; never on
\* a failure path; and the result is the success result whether or not the
\* removal failed.
C8_RemoveAfterSuccess ==
    InVideo =>
        /\ removeAttempted =>
              /\ exitPath = "completed"
              /\ cap = "released" /\ out = "released"
        /\ Returned_ => (removeAttempted <=> exitPath = "completed")
        /\ (Returned_ /\ ~result.success) =>
              /\ ~removeAttempted
              /\ inputExists
                   = (IF entry = "video" THEN env.exists ELSE TRUE)
        /\ (Returned_ /\ removeAttempted) =>
              /\ result = Returned(TRUE,
                            MsgVideoOk(total_faces_detected, frame_count))
              /\ inputExists = removeFailed

\* Witness of C8: the removal failed and the call returned success.
C8_Witness ==
    /\ InVideo /\ Returned_
    /\ removeAttempted /\ removeFailed
    /\ inputExists
    /\ result.success
    /\ frame_count > 0

\* ---- C9
\* C9: for a path that names no file both pipelines return the not-found
\* failure, and for an existing image that does not decode the image
\* pipeline returns the read failure; in both cases detect_and_blur_faces
\* is never called and no output file is created.
C9_ValidationFirst ==
    /\ (entry \in {"image", "video"} /\ ~env.exists) =>
          /\ detectorCalls = 0
          /\ ~output.created
          /\ cap = "unbound" /\ out = "unbound"
          /\ Returned_ => result = Returned(FALSE, MsgNotFound)
    /\ (InImage /\ (entry = "image" => env.exists) /\ ~env.readable) =>
          /\ detectorCalls = 0
          /\ ~output.created
          /\ Returned_ =>
                /\ ~result.success
                /\ exc = "none" => result = Returned(FALSE, MsgImageUnreadable)

\* Witness of C9: an existing image that does not decode, refused.
C9_Witness ==
    /\ entry = "image" /\ env.exists /\ ~env.readable
    /\ result = Returned(FALSE, MsgImageUnreadable)

\* ---- C10
\* C10: once upload_file has saved an upload, processed it as an image or
\* a video and returned its response, the saved file is gone.
C10_UploadRemoved ==
    (entry = "upload" /\ pc = "done" /\ Returned_) => ~inputExists

====
